---- MODULE Spec2Model ----
(***************************************************************************)
(* CPU firmware of the AUTD3 controller board (src/src/app.c): the ring    *)
(* that hands EtherCAT frames from the receive context (recv_ethercat) to  *)
(* the periodic context (update), the message classifier, and the writers  *)
(* that turn frames into FPGA BRAM writes.                                 *)
(*                                                                         *)
(* Specifications:                                                         *)
(*   SpecRing  push and pop alone, pop interrupted by push at every step   *)
(*   Spec      recv_ethercat interrupting update at every step             *)
(*   SpecLive  Spec's scheduling with fairness, on a stream of data frames *)
(*   SpecMod   the dispatcher applied to a modulation upload               *)
(*   SpecPoint the dispatcher applied to a point-STM upload                *)
(*   SpecStm   the dispatcher applied to gain-STM and point-STM uploads    *)
(*   SpecClear a modulation upload, then MSG_CLEAR among other datagrams   *)
(***************************************************************************)
EXTENDS Integers, Sequences, FiniteSets, TLC

(***************************************************************************)
(* Program constants (app.c).  The CTL_REG_*_BIT positions behind the      *)
(* FPGAControlFlags come from params.h.                                    *)
(***************************************************************************)
CPU_VERSION == 130

MOD_BUF_SEGMENT_SIZE_WIDTH == 15
MOD_BUF_SEGMENT_SIZE == 2 ^ MOD_BUF_SEGMENT_SIZE_WIDTH
MOD_BUF_SEGMENT_SIZE_MASK == MOD_BUF_SEGMENT_SIZE - 1

POINT_STM_BUF_SEGMENT_SIZE_WIDTH == 11
POINT_STM_BUF_SEGMENT_SIZE == 2 ^ POINT_STM_BUF_SEGMENT_SIZE_WIDTH
POINT_STM_BUF_SEGMENT_SIZE_MASK == POINT_STM_BUF_SEGMENT_SIZE - 1

GAIN_STM_BUF_SEGMENT_SIZE_WIDTH == 5
GAIN_STM_BUF_SEGMENT_SIZE == 2 ^ GAIN_STM_BUF_SEGMENT_SIZE_WIDTH
GAIN_STM_BUF_SEGMENT_SIZE_MASK == GAIN_STM_BUF_SEGMENT_SIZE - 1

GAIN_DATA_MODE_PHASE_DUTY_FULL == 1
GAIN_DATA_MODE_PHASE_FULL == 2
GAIN_DATA_MODE_PHASE_HALF == 4

MSG_CLEAR == 0
MSG_RD_CPU_VERSION == 1
MSG_RD_FPGA_VERSION == 3
MSG_RD_FPGA_FUNCTION == 4
MSG_BEGIN == 5
MSG_END == 240

\* FPGAControlFlags
LEGACY_MODE == 1
FORCE_FAN == 16
OP_MODE == 32
STM_GAIN_MODE == 64
READS_FPGA_INFO == 128
SYNC == 256

\* CPUControlFlags (MOD.. and CONFIG_.. share bits 0..2)
MOD == 1
MOD_BEGIN == 2
MOD_END == 4
CONFIG_EN_N == 1
CONFIG_SILENCER == 2
CONFIG_SYNC == 4
WRITE_BODY == 8
STM_BEGIN == 16
STM_END == 32
IS_DUTY == 64
MOD_DELAY == 128

BUF_SIZE == 32

\* sizeof the header's payload union, and of MOD_HEAD.data
HEADER_DATA_SIZE == 124
MOD_HEAD_DATA_SIZE == 120

(***************************************************************************)
(* Bounds of the model.                                                    *)
(***************************************************************************)
\* number of transducers (TRANS_NUM of params.h, 249 on the device)
TRANS_NUM == 9
\* frames accepted by push in SpecRing and SpecLive
MaxPush == 36

(***************************************************************************)
(* Machine arithmetic.                                                     *)
(***************************************************************************)
U8(x) == x % 256
U16(x) == x % 65536

\* x & f != 0 for a single-bit flag f
Has(x, f) == (x \div f) % 2 = 1
\* x & m and x & ~m for a mask m = 2^k - 1
AndMask(x, m) == x % (m + 1)
AndNotMask(x, m) == x - (x % (m + 1))
\* max of utils.h
max(a, b) == IF a < b THEN b ELSE a

\* x | y restricted to the low byte of a 16-bit word, x's low byte being 0
RECURSIVE BitOr(_, _)
BitOr(x, y) ==
  IF x = 0 THEN y
  ELSE IF y = 0 THEN x
  ELSE (IF x % 2 = 1 \/ y % 2 = 1 THEN 1 ELSE 0) + 2 * BitOr(x \div 2, y \div 2)

(***************************************************************************)
(* Frames.  A header is msg_id, fpga_ctl_reg, cpu_ctl_reg, size and the    *)
(* 124 payload bytes of the DATA union, kept as a byte sequence whose      *)
(* trailing zero bytes are left out; a body is TRANS_NUM 16-bit words.     *)
(***************************************************************************)
ZeroBody == [i \in 1..TRANS_NUM |-> 0]
ZeroHeader == [msg_id |-> 0, fpga_ctl_reg |-> 0, cpu_ctl_reg |-> 0, size |-> 0, data |-> << >>]

Header(id, fctl, cctl, sz, d) ==
  [msg_id |-> id, fpga_ctl_reg |-> fctl, cpu_ctl_reg |-> cctl, size |-> sz, data |-> d]

VARIABLES
  \* firmware statics
  ack, msg_id, read_fpga_info, cycle, mod_cycle, stm_cycle, seq_gain_data_mode,
  head_buf, body_buf, write_cursor, read_cursor, head, body,
  \* devices: the FPGA, the EtherCAT TX ack word and RX regions
  fpga, sTx_ack, sRx,
  \* position of the periodic context, its locals, state of the receive context
  pc, loc, isr,
  \* history: frames accepted by push, frames returned by pop, the last call,
  \* datagrams received, progress of the upload in the writers' specifications
  pushed, popped, ret, nrecv, up

ringVars == <<head_buf, body_buf, write_cursor, read_cursor>>
fwVars == <<ack, msg_id, read_fpga_info, cycle, mod_cycle, stm_cycle, seq_gain_data_mode>>
curVars == <<head, body>>
devVars == <<fpga, sTx_ack, sRx>>
vars == <<ack, msg_id, read_fpga_info, cycle, mod_cycle, stm_cycle, seq_gain_data_mode,
          head_buf, body_buf, write_cursor, read_cursor, head, body,
          fpga, sTx_ack, sRx, pc, loc, isr, pushed, popped, ret, nrecv, up>>

(***************************************************************************)
(* The FPGA behind the BRAM interface (bram_read, bram_write, bram_cpy,    *)
(* bram_set of utils.h).  Controller registers are fields; 32- and 64-bit  *)
(* registers are sequences of 16-bit words, low word first.  MOD and STM   *)
(* BRAM are addressed by <<segment, word offset>>, the segment being the   *)
(* value of MOD_ADDR_OFFSET / STM_ADDR_OFFSET at the time of the write;    *)
(* the model keeps the first and the last WatchWords words of the segments *)
(* 0..WatchSegs-1 and drops writes to any other word.                      *)
(***************************************************************************)
\* 16-bit words of one BRAM segment (14 address bits)
BRAM_SEGMENT_WORDS == 16384
WatchWords == 8
WatchSegs == 2

Watched ==
  {<<s, o>> : s \in 0..(WatchSegs - 1),
              o \in (0..(WatchWords - 1)) \cup ((BRAM_SEGMENT_WORDS - WatchWords)..(BRAM_SEGMENT_WORDS - 1))}

\* words of one gain-STM slot: get_addr(BRAM_SELECT_STM, (_stm_cycle & MASK) << 9)
GAIN_STM_SLOT_WORDS == 512

\* STM BRAM: also the 2 * TRANS_NUM words of the gain-STM slot 0 of segment 0 and
\* the first words of the gain-STM slots 1 and 31
StmWatched ==
  Watched \cup {<<0, o>> : o \in 0..(2 * TRANS_NUM - 1)} \cup
  {<<s, k * GAIN_STM_SLOT_WORDS + o>> : s \in 0..(WatchSegs - 1),
       k \in {1, GAIN_STM_BUF_SEGMENT_SIZE - 1}, o \in 0..(WatchWords - 1)}

\* bram_cpy into a segmented BRAM: words[1..n] to offsets off..off+n-1 of segment seg
bram_cpy_seg(mem, seg, off, words) ==
  [a \in DOMAIN mem |->
     IF a[1] = seg /\ a[2] >= off /\ a[2] < off + Len(words)
     THEN words[a[2] - off + 1] ELSE mem[a]]

\* low and high word of a 32-bit value, as bram_cpy of (uint16_t*)&v writes them
Words32(v) == <<v % 65536, (v \div 65536) % 65536>>
Reg32(ws) == ws[1] + 65536 * ws[2]

FpgaPowerOn(version) ==
  [ctl_reg |-> 0, version_num |-> version,
   silent_step |-> 0, silent_cycle |-> 0,
   mod_addr_offset |-> 0, mod_cycle |-> 0, mod_freq_div |-> <<0, 0>>,
   stm_addr_offset |-> 0, stm_cycle |-> 0, stm_freq_div |-> <<0, 0>>,
   sound_speed |-> <<0, 0>>,
   cycle_base |-> ZeroBody, mod_delay |-> ZeroBody, ec_sync_time |-> <<0, 0, 0, 0>>,
   mod_bram |-> [a \in Watched |-> 0],
   stm_bram |-> [a \in StmWatched |-> 0],
   normal_bram |-> [i \in 1..(2 * TRANS_NUM) |-> 0]]

(***************************************************************************)
(* clear (app.c 480-502), its FPGA writes.                                 *)
(***************************************************************************)
clear_fpga(fp) ==
  [fp EXCEPT !.ctl_reg = LEGACY_MODE,
             !.silent_step = 10,
             !.silent_cycle = 4096,
             !.mod_cycle = U16(max(1, 2) - 1),
             !.mod_freq_div = Words32(40960),
             !.mod_bram = bram_cpy_seg(fp.mod_bram, fp.mod_addr_offset, 0, <<0>>),
             !.normal_bram = [i \in 1..(2 * TRANS_NUM) |-> 0]]

ZeroHeadBuf == [i \in 0..(BUF_SIZE - 1) |-> ZeroHeader]
ZeroBodyBuf == [i \in 0..(BUF_SIZE - 1) |-> ZeroBody]

(***************************************************************************)
(* Reads of a frame.  A read past the 124 payload bytes of the header, or  *)
(* past the TRANS_NUM words of the body, is a read outside the object; it  *)
(* yields junk, a value the caller draws.                                  *)
(***************************************************************************)
\* byte i (from 0) of header->DATA
HeaderByte(h, i, junk) ==
  IF i < Len(h.data) THEN h.data[i + 1]
  ELSE IF i < HEADER_DATA_SIZE THEN 0
  ELSE junk % 256

\* n 16-bit words read from byte b of header->DATA, low byte first
HeaderWords(h, b, n, junk) ==
  [k \in 1..n |-> HeaderByte(h, b + 2 * (k - 1), junk)
                  + 256 * HeaderByte(h, b + 2 * (k - 1) + 1, junk)]

\* word i (from 0) of body->DATA
BodyWord(b, i, junk) == IF i < TRANS_NUM THEN b[i + 1] ELSE junk

\* the writers work on the record [fpga, mod_cycle, stm_cycle, seq_gain_data_mode]
Machine(fp, mc, sc, gm) ==
  [fpga |-> fp, mod_cycle |-> mc, stm_cycle |-> sc, seq_gain_data_mode |-> gm]

(***************************************************************************)
(* synchronize (app.c 182-192): FPGA writes; _cycle is set by the caller.  *)
(***************************************************************************)
\* synchronize without the SYNC bit of line 190
synchronize_fpga_no_sync_bit(fp, header, b, dc_cyc_start_time) ==
  [fp EXCEPT !.cycle_base = b,
             !.ec_sync_time = dc_cyc_start_time,
             !.ctl_reg = header.fpga_ctl_reg]

synchronize_fpga(fp, header, b, dc_cyc_start_time) ==
  [fp EXCEPT !.cycle_base = b,
             !.ec_sync_time = dc_cyc_start_time,
             !.ctl_reg = BitOr(header.fpga_ctl_reg, SYNC)]

(***************************************************************************)
(* write_mod (app.c 194-224).                                              *)
(***************************************************************************)
\* data += segment_capacity, data being a uint16_t*: the byte offset moves by twice that
mod_data_advance(base, segment_capacity) == base + 2 * segment_capacity

\* the branch write <= segment_capacity (212-213)
write_mod_fit(m, header, base, write, junk) ==
  [m EXCEPT !.fpga.mod_bram =
              bram_cpy_seg(m.fpga.mod_bram, m.fpga.mod_addr_offset,
                           AndMask(m.mod_cycle, MOD_BUF_SEGMENT_SIZE_MASK) \div 2,
                           HeaderWords(header, base, (write + 1) \div 2, junk)),
            !.mod_cycle = m.mod_cycle + write]

\* the branch write > segment_capacity without line 220
write_mod_cross_short(m, header, base, write, segment_capacity, junk) ==
  [m EXCEPT !.fpga.mod_addr_offset =
              U16(AndNotMask(m.mod_cycle + segment_capacity, MOD_BUF_SEGMENT_SIZE_MASK)
                    \div MOD_BUF_SEGMENT_SIZE),
            !.mod_cycle = m.mod_cycle + segment_capacity]

\* the branch write > segment_capacity (215-220)
write_mod_cross(m, header, base, write, segment_capacity, junk) ==
  LET m1 == [m EXCEPT !.fpga.mod_bram =
                        bram_cpy_seg(m.fpga.mod_bram, m.fpga.mod_addr_offset,
                                     AndMask(m.mod_cycle, MOD_BUF_SEGMENT_SIZE_MASK) \div 2,
                                     HeaderWords(header, base, segment_capacity \div 2, junk)),
                      !.mod_cycle = m.mod_cycle + segment_capacity]
      base1 == mod_data_advance(base, segment_capacity)
      m2 == [m1 EXCEPT !.fpga.mod_addr_offset =
                         U16(AndNotMask(m1.mod_cycle, MOD_BUF_SEGMENT_SIZE_MASK)
                               \div MOD_BUF_SEGMENT_SIZE)]
  IN [m2 EXCEPT !.fpga.mod_bram =
                  bram_cpy_seg(m2.fpga.mod_bram, m2.fpga.mod_addr_offset,
                               AndMask(m2.mod_cycle, MOD_BUF_SEGMENT_SIZE_MASK) \div 2,
                               HeaderWords(header, base1, (write - segment_capacity + 1) \div 2, junk)),
                !.mod_cycle = m2.mod_cycle + (write - segment_capacity)]

write_mod(m, header, junk) ==
  LET write == header.size
      begin == Has(header.cpu_ctl_reg, MOD_BEGIN)
      \* 200-208; MOD_HEAD.data follows the 4 bytes of freq_div
      m0 == IF begin
            THEN [m EXCEPT !.mod_cycle = 0,
                           !.fpga.mod_addr_offset = 0,
                           !.fpga.mod_freq_div = HeaderWords(header, 0, 2, junk)]
            ELSE m
      base == IF begin THEN HEADER_DATA_SIZE - MOD_HEAD_DATA_SIZE ELSE 0
      segment_capacity ==
        AndNotMask(m0.mod_cycle, MOD_BUF_SEGMENT_SIZE_MASK) + MOD_BUF_SEGMENT_SIZE - m0.mod_cycle
      m1 == IF write <= segment_capacity
            THEN write_mod_fit(m0, header, base, write, junk)
            ELSE write_mod_cross(m0, header, base, write, segment_capacity, junk)
  IN IF Has(header.cpu_ctl_reg, MOD_END)
     THEN [m1 EXCEPT !.fpga.mod_cycle = U16(max(1, m1.mod_cycle) - 1)]
     ELSE m1

(***************************************************************************)
(* config_silencer (app.c 226-231): SILENT.cycle, then SILENT.step.        *)
(***************************************************************************)
config_silencer(m, header, junk) ==
  [m EXCEPT !.fpga.silent_step = HeaderWords(header, 2, 1, junk)[1],
            !.fpga.silent_cycle = HeaderWords(header, 0, 1, junk)[1]]

(***************************************************************************)
(* set_mod_delay (app.c 233-235).                                          *)
(***************************************************************************)
set_mod_delay(m, b) == [m EXCEPT !.fpga.mod_delay = b]

(***************************************************************************)
(* write_normal_op (app.c 237-267): TRANS_NUM words at stride 2, from word *)
(* 0 (legacy, or raw phase) or word 1 (raw duty) of NORMAL BRAM.           *)
(***************************************************************************)
write_normal_op(m, header, b) ==
  LET first == IF Has(header.fpga_ctl_reg, LEGACY_MODE) THEN 0
               ELSE IF Has(header.cpu_ctl_reg, IS_DUTY) THEN 1 ELSE 0
  IN [m EXCEPT !.fpga.normal_bram =
        [i \in 1..(2 * TRANS_NUM) |->
           IF (i - 1) % 2 = first THEN b[((i - 1) \div 2) + 1] ELSE m.fpga.normal_bram[i]]]

(***************************************************************************)
(* write_point_stm (app.c 269-338).                                        *)
(***************************************************************************)
\* the loops at 300-306, 312-318, 327-333: cnt points of 4 words from word src
\* of the body, to slots of 8 words from word off of the current segment
point_cpy(mem, seg, off, cnt, b, src, junk) ==
  [a \in DOMAIN mem |->
     IF a[1] = seg /\ a[2] >= off /\ (a[2] - off) \div 8 < cnt /\ (a[2] - off) % 8 < 4
     THEN BodyWord(b, src + 4 * ((a[2] - off) \div 8) + ((a[2] - off) % 8), junk)
     ELSE mem[a]]

\* the branch size <= segment_capacity (297-307)
write_point_fit(m, b, src, size, junk) ==
  [m EXCEPT !.fpga.stm_bram =
              point_cpy(m.fpga.stm_bram, m.fpga.stm_addr_offset,
                        AndMask(m.stm_cycle, POINT_STM_BUF_SEGMENT_SIZE_MASK) * 8,
                        size, b, src, junk),
            !.stm_cycle = m.stm_cycle + size]

\* the branch size > segment_capacity (309-334)
write_point_cross(m, b, src, size, segment_capacity, junk) ==
  LET m1 == [m EXCEPT !.fpga.stm_bram =
                        point_cpy(m.fpga.stm_bram, m.fpga.stm_addr_offset,
                                  AndMask(m.stm_cycle, POINT_STM_BUF_SEGMENT_SIZE_MASK) * 8,
                                  segment_capacity, b, src, junk),
                      !.stm_cycle = m.stm_cycle + segment_capacity]
      m2 == [m1 EXCEPT !.fpga.stm_addr_offset =
                         U16(AndNotMask(m1.stm_cycle, POINT_STM_BUF_SEGMENT_SIZE_MASK)
                               \div POINT_STM_BUF_SEGMENT_SIZE)]
  IN [m2 EXCEPT !.fpga.stm_bram =
                  point_cpy(m2.fpga.stm_bram, m2.fpga.stm_addr_offset,
                            AndMask(m2.stm_cycle, POINT_STM_BUF_SEGMENT_SIZE_MASK) * 8,
                            size - segment_capacity, b, src + 4 * segment_capacity, junk),
                !.stm_cycle = m2.stm_cycle + (size - segment_capacity)]

write_point_stm(m, header, b, junk) ==
  LET begin == Has(header.cpu_ctl_reg, STM_BEGIN)
      \* 279-293
      m0 == IF begin
            THEN [m EXCEPT !.stm_cycle = 0,
                           !.fpga.stm_addr_offset = 0,
                           !.fpga.stm_freq_div = <<b[2], b[3]>>,
                           !.fpga.sound_speed = <<b[4], b[5]>>]
            ELSE m
      size == b[1]
      src == IF begin THEN 5 ELSE 1
      segment_capacity ==
        AndNotMask(m0.stm_cycle, POINT_STM_BUF_SEGMENT_SIZE_MASK)
          + POINT_STM_BUF_SEGMENT_SIZE - m0.stm_cycle
      m1 == IF size <= segment_capacity
            THEN write_point_fit(m0, b, src, size, junk)
            ELSE write_point_cross(m0, b, src, size, segment_capacity, junk)
  IN IF Has(header.cpu_ctl_reg, STM_END)
     THEN [m1 EXCEPT !.fpga.stm_cycle = U16(max(1, m1.stm_cycle) - 1)]
     ELSE m1

(***************************************************************************)
(* write_gain_stm (app.c 340-478).                                         *)
(***************************************************************************)
\* get_addr(BRAM_SELECT_STM, (_stm_cycle & GAIN_STM_BUF_SEGMENT_SIZE_MASK) << 9)
gain_addr(sc) == AndMask(sc, GAIN_STM_BUF_SEGMENT_SIZE_MASK) * GAIN_STM_SLOT_WORDS

\* while (cnt--) { *dst = w; dst += 2; } from word off of the current segment
stride_cpy(mem, seg, off, words) ==
  [a \in DOMAIN mem |->
     IF a[1] = seg /\ a[2] >= off /\ (a[2] - off) % 2 = 0 /\ (a[2] - off) \div 2 < Len(words)
     THEN words[((a[2] - off) \div 2) + 1]
     ELSE mem[a]]

\* one pass over the slot of the current _stm_cycle, first = 0 or 1, then the advance
gain_pass(m, words, first, advance) ==
  [m EXCEPT !.fpga.stm_bram =
              stride_cpy(m.fpga.stm_bram, m.fpga.stm_addr_offset,
                         gain_addr(m.stm_cycle) + first, words),
            !.stm_cycle = m.stm_cycle + advance]

\* 0xFF00 | ((src >> shift) & 0x00FF)
phase_full_word(w, shift) == 65280 + ((w \div (2 ^ shift)) % 256)
\* phase = (src >> shift) & 0x000F; 0xFF00 | (phase << 4) | phase
phase_half_word(w, shift) == 65280 + 17 * ((w \div (2 ^ shift)) % 16)

\* 363-380 with the advance of line 370 in the branch of line 372 too
gain_phase_duty_full_always(m, header, b) ==
  IF Has(header.fpga_ctl_reg, LEGACY_MODE) THEN gain_pass(m, b, 0, 1)
  ELSE IF Has(header.cpu_ctl_reg, IS_DUTY) THEN gain_pass(m, b, 1, 1)
  ELSE gain_pass(m, b, 0, 1)

\* 363-380 and 454-471
gain_phase_duty_full(m, header, b) ==
  IF Has(header.fpga_ctl_reg, LEGACY_MODE) THEN gain_pass(m, b, 0, 1)
  ELSE IF Has(header.cpu_ctl_reg, IS_DUTY) THEN gain_pass(m, b, 1, 1)
  ELSE gain_pass(m, b, 0, 0)

\* 401-407: while (cnt++ < TRANS_NUM) { *dst++ = *src++; *dst++ = _cycle[cnt] >> 1; }
gain_phase_full_raw(m, b, cyc, junk) ==
  [m EXCEPT !.fpga.stm_bram =
              [a \in DOMAIN m.fpga.stm_bram |->
                 LET o == a[2] - gain_addr(m.stm_cycle) IN
                 IF a[1] = m.fpga.stm_addr_offset /\ o >= 0 /\ o < 2 * TRANS_NUM
                 THEN IF o % 2 = 0 THEN b[(o \div 2) + 1]
                      ELSE BodyWord(cyc, (o \div 2) + 1, junk) \div 2
                 ELSE m.fpga.stm_bram[a]],
            !.stm_cycle = m.stm_cycle + 1]

\* 381-409
gain_phase_full(m, header, b, cyc, junk) ==
  IF Has(header.fpga_ctl_reg, LEGACY_MODE)
  THEN gain_pass(gain_pass(m, [i \in 1..TRANS_NUM |-> phase_full_word(b[i], 0)], 0, 1),
                 [i \in 1..TRANS_NUM |-> phase_full_word(b[i], 8)], 0, 1)
  ELSE IF Has(header.cpu_ctl_reg, IS_DUTY) THEN m
  ELSE gain_phase_full_raw(m, b, cyc, junk)

\* 410-453
gain_phase_half(m, header, b) ==
  IF ~Has(header.fpga_ctl_reg, LEGACY_MODE) THEN m
  ELSE LET p(k) == [i \in 1..TRANS_NUM |-> phase_half_word(b[i], 4 * k)]
       IN gain_pass(gain_pass(gain_pass(gain_pass(m, p(0), 0, 1), p(1), 0, 1), p(2), 0, 1),
                    p(3), 0, 1)

write_gain_stm(m, header, b, cyc, junk) ==
  IF Has(header.cpu_ctl_reg, STM_BEGIN)
  THEN \* 349-356
       [m EXCEPT !.stm_cycle = 0,
                 !.fpga.stm_addr_offset = 0,
                 !.fpga.stm_freq_div = <<b[1], b[2]>>,
                 !.seq_gain_data_mode = b[3]]
  ELSE LET m1 == CASE m.seq_gain_data_mode = GAIN_DATA_MODE_PHASE_DUTY_FULL ->
                        gain_phase_duty_full(m, header, b)
                   [] m.seq_gain_data_mode = GAIN_DATA_MODE_PHASE_FULL ->
                        gain_phase_full(m, header, b, cyc, junk)
                   [] m.seq_gain_data_mode = GAIN_DATA_MODE_PHASE_HALF ->
                        gain_phase_half(m, header, b)
                   [] OTHER -> gain_phase_duty_full(m, header, b)
           \* 474-475
           m2 == IF AndMask(m1.stm_cycle, GAIN_STM_BUF_SEGMENT_SIZE_MASK) = 0
                 THEN [m1 EXCEPT !.fpga.stm_addr_offset =
                         U16(AndNotMask(m1.stm_cycle, GAIN_STM_BUF_SEGMENT_SIZE_MASK)
                               \div GAIN_STM_BUF_SEGMENT_SIZE)]
                 ELSE m1
       IN \* 477
          IF Has(header.cpu_ctl_reg, STM_END)
          THEN [m2 EXCEPT !.fpga.stm_cycle = U16(max(1, m2.stm_cycle) - 1)]
          ELSE m2

(***************************************************************************)
(* process (app.c 510-539), from the frame that pop returned.              *)
(***************************************************************************)
process_frame(m, header, b, cyc, junk) ==
  LET ctl_reg == header.fpga_ctl_reg
      m0 == [m EXCEPT !.fpga.ctl_reg = ctl_reg]
      m1 == IF Has(header.cpu_ctl_reg, MOD) THEN write_mod(m0, header, junk)
            ELSE IF Has(header.cpu_ctl_reg, CONFIG_SILENCER) THEN config_silencer(m0, header, junk)
            ELSE m0
  IN IF ~Has(header.cpu_ctl_reg, WRITE_BODY) THEN m1
     ELSE IF Has(header.cpu_ctl_reg, MOD_DELAY) THEN set_mod_delay(m1, b)
     ELSE IF ~Has(ctl_reg, OP_MODE) THEN write_normal_op(m1, header, b)
     ELSE IF ~Has(ctl_reg, STM_GAIN_MODE) THEN write_point_stm(m1, header, b, junk)
     ELSE write_gain_stm(m1, header, b, cyc, junk)

(***************************************************************************)
(* The state after power-on and init_app (app.c 126-144, 508).             *)
(***************************************************************************)
InitFirmware(version) ==
  /\ ack = 0 /\ msg_id = 0 /\ read_fpga_info = FALSE
  /\ cycle = ZeroBody
  /\ mod_cycle = 2 /\ stm_cycle = 0
  /\ seq_gain_data_mode = GAIN_DATA_MODE_PHASE_DUTY_FULL
  /\ head_buf = ZeroHeadBuf /\ body_buf = ZeroBodyBuf
  /\ write_cursor = 0 /\ read_cursor = 0
  /\ head = ZeroHeader /\ body = ZeroBody
  /\ fpga = clear_fpga(FpgaPowerOn(version))
  /\ sTx_ack = 0
  /\ sRx = [header |-> ZeroHeader, body |-> ZeroBody]
  /\ pc = "idle" /\ loc = [ack |-> 0]
  /\ isr = "idle"
  /\ pushed = << >> /\ popped = << >>
  /\ ret = [op |-> "none", ok |-> FALSE, seq |-> 0]
  /\ nrecv = 0
  /\ up = [pos |-> 0, active |-> FALSE, done |-> FALSE, small |-> 0, odd |-> FALSE]

(***************************************************************************)
(* The ring (app.c 137-180).                                               *)
(***************************************************************************)
\* next = cursor + 1; if (next >= BUF_SIZE) next = 0;
next_cursor(c) == IF c + 1 >= BUF_SIZE THEN 0 ELSE c + 1

\* push_full with the wrap of next forgotten
push_full_nowrap == write_cursor + 1 = read_cursor

\* if (next == _read_cursor) return false;
push_full == next_cursor(write_cursor) = read_cursor

\* push, the path that returns true: the two copies, then the cursor
push_store(h, b) ==
  /\ head_buf' = [head_buf EXCEPT ![write_cursor] = h]
  /\ body_buf' = [body_buf EXCEPT ![write_cursor] = b]
  /\ write_cursor' = next_cursor(write_cursor)

\* pop_empty with push's test in its place
pop_empty_as_full == next_cursor(read_cursor) = write_cursor

\* if (_read_cursor == _write_cursor) return false;
pop_empty == read_cursor = write_cursor

(***************************************************************************)
(* SpecRing: one producer calling push, one consumer calling pop.  The     *)
(* producer is the receive context: it runs push to its end between any    *)
(* two steps of pop.  The n-th frame offered carries n in its header and   *)
(* body, so that a lost, repeated, reordered or overwritten frame shows.   *)
(***************************************************************************)
RingHeader(n) ==
  Header(MSG_BEGIN + (n % (MSG_END - MSG_BEGIN + 1)), n % 256, (n * 7) % 256, n % 125, <<n % 256>>)
RingBody(n) == [i \in 1..TRANS_NUM |-> U16(n * 16 + i)]

Flip(r) == 1 - r.seq

RingPush ==
  /\ Len(pushed) < MaxPush
  /\ LET h == RingHeader(Len(pushed) + 1)
         b == RingBody(Len(pushed) + 1)
     IN IF push_full
        THEN /\ ret' = [op |-> "push", ok |-> FALSE, seq |-> Flip(ret)]
             /\ UNCHANGED <<ringVars, pushed>>
        ELSE /\ push_store(h, b)
             /\ read_cursor' = read_cursor
             /\ pushed' = Append(pushed, <<h, b>>)
             /\ ret' = [op |-> "push", ok |-> TRUE, seq |-> Flip(ret)]
  /\ UNCHANGED <<fwVars, curVars, devVars, pc, loc, isr, popped, nrecv, up>>

\* pop, line 167
RingPopCheck ==
  /\ pc = "idle"
  /\ IF pop_empty
     THEN /\ ret' = [op |-> "pop", ok |-> FALSE, seq |-> Flip(ret)]
          /\ pc' = "idle"
     ELSE /\ ret' = ret
          /\ pc' = "pop_head"
  /\ UNCHANGED <<fwVars, ringVars, curVars, devVars, loc, isr, pushed, popped, nrecv, up>>

\* pop, line 171
RingPopHead ==
  /\ pc = "pop_head"
  /\ head' = head_buf[read_cursor]
  /\ pc' = "pop_body"
  /\ UNCHANGED <<fwVars, ringVars, body, devVars, loc, isr, pushed, popped, ret, nrecv, up>>

\* pop, line 172
RingPopBody ==
  /\ pc = "pop_body"
  /\ body' = body_buf[read_cursor]
  /\ pc' = "pop_adv"
  /\ UNCHANGED <<fwVars, ringVars, head, devVars, loc, isr, pushed, popped, ret, nrecv, up>>

\* pop, lines 174-179
RingPopAdvance ==
  /\ pc = "pop_adv"
  /\ read_cursor' = next_cursor(read_cursor)
  /\ popped' = Append(popped, <<head, body>>)
  /\ ret' = [op |-> "pop", ok |-> TRUE, seq |-> Flip(ret)]
  /\ pc' = "idle"
  /\ UNCHANGED <<fwVars, head_buf, body_buf, write_cursor, curVars, devVars, loc, isr, pushed, nrecv, up>>

FPGA_VERSION == 905

InitRing == InitFirmware(FPGA_VERSION)

NextRing == RingPush \/ RingPopCheck \/ RingPopHead \/ RingPopBody \/ RingPopAdvance

SpecRing == InitRing /\ [][NextRing]_vars

\* entries pushed and not yet popped, from the cursors
Outstanding == (write_cursor - read_cursor) % BUF_SIZE

\* the frame held by the j-th outstanding slot, j = 0 being the next to pop
Slot(j) ==
  <<head_buf[(read_cursor + j) % BUF_SIZE], body_buf[(read_cursor + j) % BUF_SIZE]>>

\* C1: in every interleaving of push and pop (push running between any two
\* steps of pop) the pairs returned by successful pops are, in order, the
\* pairs accepted by successful pushes: popped is always a prefix of pushed,
\* and the frames not yet popped are held, unaltered and in order, by the
\* slots from read_cursor to write_cursor.
C1_PoppedEqualsPushed ==
  /\ Len(popped) <= Len(pushed)
  /\ \A i \in 1..Len(popped) : popped[i] = pushed[i]
  /\ Outstanding = Len(pushed) - Len(popped)
  /\ \A j \in 0..(Outstanding - 1) : Slot(j) = pushed[Len(popped) + 1 + j]

\* C1 witness: the cursors have wrapped, the ring is full, and the consumer
\* is in the middle of a pop, holding the copy of the oldest frame.
C1_Witness ==
  /\ pc = "pop_adv"
  /\ Len(pushed) > BUF_SIZE /\ Len(popped) > 0
  /\ Outstanding = BUF_SIZE - 1
  /\ <<head, body>> = pushed[Len(popped) + 1]

\* a step that is a call of push (resp. a return of pop)
IsPushCall == ret'.seq # ret.seq /\ ret'.op = "push"
IsPopReturn == ret'.seq # ret.seq /\ ret'.op = "pop"

C2_Range ==
  /\ write_cursor \in 0..(BUF_SIZE - 1)
  /\ read_cursor \in 0..(BUF_SIZE - 1)
  /\ Outstanding \in 0..(BUF_SIZE - 1)

C2_Calls ==
  /\ IsPushCall =>
       /\ ret'.ok = FALSE <=> Outstanding = BUF_SIZE - 1
       /\ Outstanding = BUF_SIZE - 1 <=> (write_cursor + 1) % BUF_SIZE = read_cursor
       /\ ret'.ok = FALSE => UNCHANGED <<ringVars, curVars>>
       /\ ret'.ok = TRUE => write_cursor' = (write_cursor + 1) % BUF_SIZE
  /\ (IsPopReturn /\ ret'.ok = FALSE) =>
       /\ write_cursor = read_cursor
       /\ UNCHANGED <<ringVars, curVars>>
  /\ (pc = "idle" /\ pc' = "pop_head") => write_cursor # read_cursor

\* C2: both cursors stay in 0..31 and the number of outstanding entries,
\* (write_cursor - read_cursor) mod 32, in 0..31; push returns false, changing
\* nothing, exactly when 31 entries are outstanding, which is when
\* (write_cursor + 1) mod 32 = read_cursor; pop returns false, changing
\* nothing, exactly when write_cursor = read_cursor.
C2_CursorsAndReturns == [](C2_Range) /\ [][C2_Calls]_vars

\* C2 witness: push has just returned false on a full ring whose cursors have
\* wrapped (write_cursor is below read_cursor).
C2_Witness ==
  /\ ret.op = "push" /\ ret.ok = FALSE
  /\ Outstanding = BUF_SIZE - 1
  /\ write_cursor < read_cursor
  /\ Len(popped) > 0

(***************************************************************************)
(* recv_ethercat (app.c 556-592).  The receive context interrupts the      *)
(* periodic context and is not interrupted by it: the handler is one step, *)
(* unless push finds the ring full, where it stays in the loop of 586-587  *)
(* (isr = "spin") and the periodic context does not run.                   *)
(***************************************************************************)
\* ECATC.DC_CYC_START_TIME, as four 16-bit words, low word first
DC_CYC_START_TIME == <<30600, 21862, 13124, 4386>>

\* (_ack & 0xFF00) | low
ack_with_low(a, low) == BitOr(a - (a % 256), low)

\* recv_ethercat without the test of line 559
dedup_never(id) == FALSE

\* if (header->msg_id == _msg_id) return;
dedup(id) == id = msg_id

\* the branch of the switch at 565-590 that a classified datagram takes
classify(header) ==
  CASE header.msg_id = MSG_CLEAR -> "clear"
    [] header.msg_id = MSG_RD_CPU_VERSION -> "cpu_version"
    [] header.msg_id = MSG_RD_FPGA_VERSION -> "fpga_version"
    [] header.msg_id = MSG_RD_FPGA_FUNCTION -> "fpga_function"
    [] OTHER -> IF header.msg_id > MSG_END THEN "drop"
                ELSE IF ~Has(header.cpu_ctl_reg, MOD) /\ Has(header.cpu_ctl_reg, CONFIG_SYNC)
                     THEN "synchronize"
                     ELSE "push"

\* _ack at 591, from the datagram and the value read from the FPGA info register
recv_ack(header, kind, info) ==
  LET a0 == U16(header.msg_id * 256)
      a1 == IF Has(header.fpga_ctl_reg, READS_FPGA_INFO) THEN ack_with_low(a0, info) ELSE a0
  IN CASE kind = "cpu_version" -> ack_with_low(a1, CPU_VERSION % 256)
       [] kind = "fpga_version" -> ack_with_low(a1, fpga.version_num % 256)
       [] kind = "fpga_function" -> ack_with_low(a1, (fpga.version_num \div 256) % 256)
       [] OTHER -> a1

recv_ethercat(d, info) ==
  /\ isr = "idle"
  /\ sRx' = d
  /\ nrecv' = nrecv + 1
  /\ IF dedup(d.header.msg_id)
     THEN /\ ret' = [op |-> "recv", ok |-> FALSE, seq |-> Flip(ret)]
          /\ UNCHANGED <<fwVars, ringVars, curVars, fpga, sTx_ack, isr, pushed>>
     ELSE LET kind == classify(d.header)
              spin == kind = "push" /\ push_full
          IN /\ ret' = [op |-> "recv", ok |-> TRUE, seq |-> Flip(ret)]
             /\ msg_id' = d.header.msg_id
             /\ ack' = recv_ack(d.header, kind, info)
             \* 562, and 483 in clear
             /\ read_fpga_info' = IF kind = "clear" THEN FALSE
                                  ELSE Has(d.header.fpga_ctl_reg, READS_FPGA_INFO)
             /\ fpga' = CASE kind = "clear" -> clear_fpga(fpga)
                          [] kind = "synchronize" ->
                               synchronize_fpga(fpga, d.header, d.body, DC_CYC_START_TIME)
                          [] OTHER -> fpga
             /\ cycle' = IF kind = "synchronize" THEN d.body ELSE cycle
             /\ stm_cycle' = IF kind = "clear" THEN 0 ELSE stm_cycle
             /\ mod_cycle' = IF kind = "clear" THEN 2 ELSE mod_cycle
             /\ seq_gain_data_mode' = seq_gain_data_mode
             /\ read_cursor' = read_cursor
             /\ CASE kind = "clear" ->
                       /\ head_buf' = ZeroHeadBuf /\ body_buf' = ZeroBodyBuf
                       /\ write_cursor' = write_cursor
                       /\ head' = ZeroHeader /\ body' = ZeroBody
                       /\ pushed' = pushed
                  [] kind = "push" /\ ~push_full ->
                       /\ push_store(d.header, d.body)
                       /\ pushed' = Append(pushed, <<d.header, d.body>>)
                       /\ UNCHANGED curVars
                  [] OTHER -> UNCHANGED <<ringVars, curVars, pushed>>
             /\ isr' = IF spin THEN "spin" ELSE "idle"
             /\ sTx_ack' = IF spin THEN sTx_ack ELSE ack'
  /\ UNCHANGED <<pc, loc, popped, up>>

\* while (!push(header, body)) {} and line 591, the ring having been found full
RecvSpin ==
  /\ isr = "spin"
  /\ IF push_full
     THEN UNCHANGED <<ringVars, pushed, isr, sTx_ack>>
     ELSE /\ push_store(sRx.header, sRx.body)
          /\ read_cursor' = read_cursor
          /\ pushed' = Append(pushed, <<sRx.header, sRx.body>>)
          /\ isr' = "idle"
          /\ sTx_ack' = ack
  /\ UNCHANGED <<fwVars, curVars, fpga, sRx, pc, loc, popped, ret, nrecv, up>>

(***************************************************************************)
(* update (app.c 541-554), step by step: pop (164-180) called by process,  *)
(* the dispatch of the popped frame (513-537), the refresh of _ack         *)
(* (544-552) and its copy to the TX region (553).  A step runs only while  *)
(* the receive context is not running.                                     *)
(***************************************************************************)
\* values the reads outside a frame may yield
JunkVals == {0, 65535}
\* values read from the FPGA info register, a 16-bit word: with and without
\* bits above the low byte
FpgaInfoVals == {0, 1, 256}

\* 167: an empty ring ends process
UpdPopCheck ==
  /\ isr = "idle" /\ pc = "idle"
  /\ pc' = IF pop_empty THEN "ack_switch" ELSE "pop_head"
  /\ UNCHANGED <<fwVars, ringVars, curVars, devVars, loc, isr, pushed, popped, ret, nrecv, up>>

\* 171
UpdPopHead ==
  /\ isr = "idle" /\ pc = "pop_head"
  /\ head' = head_buf[read_cursor]
  /\ pc' = "pop_body"
  /\ UNCHANGED <<fwVars, ringVars, body, devVars, loc, isr, pushed, popped, ret, nrecv, up>>

\* 172
UpdPopBody ==
  /\ isr = "idle" /\ pc = "pop_body"
  /\ body' = body_buf[read_cursor]
  /\ pc' = "pop_adv"
  /\ UNCHANGED <<fwVars, ringVars, head, devVars, loc, isr, pushed, popped, ret, nrecv, up>>

\* 174-179
UpdPopAdvance ==
  /\ isr = "idle" /\ pc = "pop_adv"
  /\ read_cursor' = next_cursor(read_cursor)
  /\ popped' = Append(popped, <<head, body>>)
  /\ pc' = "dispatch"
  /\ UNCHANGED <<fwVars, head_buf, body_buf, write_cursor, curVars, devVars, loc, isr,
                 pushed, ret, nrecv, up>>

\* 513-537
UpdDispatch ==
  /\ isr = "idle" /\ pc = "dispatch"
  /\ \E junk \in JunkVals :
       LET m == process_frame(Machine(fpga, mod_cycle, stm_cycle, seq_gain_data_mode),
                              head, body, cycle, junk)
       IN /\ fpga' = m.fpga
          /\ mod_cycle' = m.mod_cycle
          /\ stm_cycle' = m.stm_cycle
          /\ seq_gain_data_mode' = m.seq_gain_data_mode
  /\ pc' = "ack_switch"
  /\ UNCHANGED <<ack, msg_id, read_fpga_info, cycle, ringVars, curVars, sTx_ack, sRx, loc, isr,
                 pushed, popped, ret, nrecv, up>>

\* 544-548: switch (_msg_id)
UpdAckSwitch ==
  /\ isr = "idle" /\ pc = "ack_switch"
  /\ pc' = IF msg_id \in {MSG_RD_CPU_VERSION, MSG_RD_FPGA_VERSION, MSG_RD_FPGA_FUNCTION}
           THEN "tx_load" ELSE "ack_flag"
  /\ UNCHANGED <<fwVars, ringVars, curVars, devVars, loc, isr, pushed, popped, ret, nrecv, up>>

\* 550: if (_read_fpga_info)
UpdAckFlag ==
  /\ isr = "idle" /\ pc = "ack_flag"
  /\ pc' = IF read_fpga_info THEN "ack_load" ELSE "tx_load"
  /\ UNCHANGED <<fwVars, ringVars, curVars, devVars, loc, isr, pushed, popped, ret, nrecv, up>>

\* 550: the value (_ack & 0xFF00) | read_fpga_info()
UpdAckLoad ==
  /\ isr = "idle" /\ pc = "ack_load"
  /\ \E info \in FpgaInfoVals : loc' = [loc EXCEPT !.ack = ack_with_low(ack, info)]
  /\ pc' = "ack_store"
  /\ UNCHANGED <<fwVars, ringVars, curVars, devVars, isr, pushed, popped, ret, nrecv, up>>

\* 550: the store to _ack
UpdAckStore ==
  /\ isr = "idle" /\ pc = "ack_store"
  /\ ack' = loc.ack
  /\ pc' = "tx_load"
  /\ UNCHANGED <<msg_id, read_fpga_info, cycle, mod_cycle, stm_cycle, seq_gain_data_mode,
                 ringVars, curVars, devVars, loc, isr, pushed, popped, ret, nrecv, up>>

\* 553: the read of _ack
UpdTxLoad ==
  /\ isr = "idle" /\ pc = "tx_load"
  /\ loc' = [loc EXCEPT !.ack = ack]
  /\ pc' = "tx_store"
  /\ UNCHANGED <<fwVars, ringVars, curVars, devVars, isr, pushed, popped, ret, nrecv, up>>

\* 553: the store to _sTx.ack
UpdTxStore ==
  /\ isr = "idle" /\ pc = "tx_store"
  /\ sTx_ack' = loc.ack
  /\ pc' = "idle"
  /\ UNCHANGED <<fwVars, ringVars, curVars, fpga, sRx, loc, isr, pushed, popped, ret, nrecv, up>>

Update ==
  \/ UpdPopCheck \/ UpdPopHead \/ UpdPopBody \/ UpdPopAdvance \/ UpdDispatch
  \/ UpdAckSwitch \/ UpdAckFlag \/ UpdAckLoad \/ UpdAckStore \/ UpdTxLoad \/ UpdTxStore

(***************************************************************************)
(* Spec: datagrams arrive at any time; update runs step by step.           *)
(***************************************************************************)
\* datagrams received in Spec
MaxRecv == 2

\* a body: the cycles 1, 2, 3, ...
CountBody == [i \in 1..TRANS_NUM |-> i]

\* headers of msg_ids that the switch of recv_ethercat names
ControlHeaders ==
  {Header(id, fctl, 0, 0, << >>) :
     id \in {MSG_CLEAR, MSG_RD_CPU_VERSION, MSG_RD_FPGA_VERSION, MSG_RD_FPGA_FUNCTION},
     fctl \in {0, READS_FPGA_INFO}}

\* headers of the other msg_ids: below MSG_BEGIN, MSG_BEGIN, MSG_END, above MSG_END;
\* a plain frame, a synchronization, a 3-sample modulation with freq_div 40960,
\* a silencer configuration (cycle 2048, step 5) with a normal-gain body
DataHeaders ==
  {Header(id, READS_FPGA_INFO + LEGACY_MODE, 0, 0, << >>) :
     id \in {2, MSG_BEGIN, MSG_END, MSG_END + 1}}
  \cup {Header(id, 0, CONFIG_SYNC, 0, << >>) : id \in {2, MSG_BEGIN, MSG_END + 1}}
  \cup {Header(MSG_END, 0, MOD + MOD_BEGIN + MOD_END, 3, <<0, 160, 0, 0, 170, 187, 204>>),
        Header(MSG_BEGIN, LEGACY_MODE, CONFIG_SILENCER + WRITE_BODY, 0, <<0, 8, 5, 0>>)}

Datagrams == {[header |-> h, body |-> CountBody] : h \in ControlHeaders \cup DataHeaders}

RecvEthercat ==
  /\ nrecv < MaxRecv
  /\ \E d \in Datagrams, info \in FpgaInfoVals : recv_ethercat(d, info)

Init == InitFirmware(FPGA_VERSION)

Next ==
  \/ RecvEthercat
  \/ UpdPopCheck \/ UpdPopHead \/ UpdPopBody \/ UpdPopAdvance \/ UpdDispatch
  \/ UpdAckSwitch \/ UpdAckFlag \/ UpdAckLoad \/ UpdAckStore \/ UpdTxLoad \/ UpdTxStore

Spec == Init /\ [][Next]_vars

\* C3: whenever the receive context is not executing, the high byte of ack is
\* the msg_id of the most recently received datagram (the datagram in the RX
\* region), whatever step of update recv_ethercat interrupted.
C3_AckHighIsLastMsgId ==
  (isr = "idle" /\ nrecv > 0) => ack \div 256 = sRx.header.msg_id

\* the same, leaving aside the bits that the values of FpgaInfoVals above the
\* low byte put into the high byte
C3_AckHighUpToInfo ==
  (isr = "idle" /\ nrecv > 0) =>
    \E info \in FpgaInfoVals : ack \div 256 = BitOr(sRx.header.msg_id, info \div 256)

\* a step in which a datagram is received, and its msg_id
IsRecv == nrecv' # nrecv
RecvId == sRx'.header.msg_id

C4_Duplicate ==
  (IsRecv /\ RecvId = msg_id) =>
    /\ ret'.ok = FALSE
    /\ UNCHANGED <<fwVars, ringVars, curVars, fpga, sTx_ack, pc, loc, isr, pushed, popped>>

C4_First == (IsRecv /\ RecvId # msg_id) => (ret'.ok = TRUE /\ msg_id' = RecvId)

\* C4: a datagram whose msg_id equals msg_id_last is not classified and
\* recv_ethercat changes nothing (ack, TX ack, read_fpga_info, cycle, ring and
\* cursors, the frame being dispatched, every FPGA register and BRAM,
\* mod_cycle, stm_cycle): of two datagrams in a row with one msg_id only the
\* first is classified, so they leave at most one ring entry, and the frames
\* dispatched never outnumber the frames pushed.
C4_DuplicateIsIgnored ==
  [][C4_Duplicate /\ C4_First]_vars /\ [](Len(popped) <= Len(pushed))

\* C4 witness: a data frame was received and pushed, the periodic context is
\* in the middle of update, and the same msg_id has been received again.
C4_Witness ==
  /\ nrecv = 2 /\ ret.op = "recv" /\ ret.ok = FALSE
  /\ sRx.header.msg_id = MSG_BEGIN /\ msg_id = MSG_BEGIN
  /\ Len(pushed) = 1
  /\ pc = "dispatch"

\* the step handed the datagram to synchronize
IsSynchronize == fpga'.ec_sync_time # fpga.ec_sync_time \/ cycle' # cycle

\* C6: the msg_ids treated as data frames are exactly 0x05..0xF0: a received
\* datagram is pushed into the ring or handed to synchronize only if its
\* msg_id is in 0x05..0xF0, and one above 0xF0 pushes nothing and leaves the
\* ring, _cycle, mod_cycle, stm_cycle and the FPGA as they are.
C6_DataFramesAre05ToF0 ==
  [][IsRecv =>
       /\ (pushed' # pushed \/ IsSynchronize) => RecvId \in MSG_BEGIN..MSG_END
       /\ RecvId > MSG_END =>
            UNCHANGED <<ringVars, curVars, fpga, cycle, mod_cycle, stm_cycle, pushed>>]_vars

\* the byte a version query asks for
RequestedByte(id) ==
  CASE id = MSG_RD_CPU_VERSION -> CPU_VERSION % 256
    [] id = MSG_RD_FPGA_VERSION -> fpga.version_num % 256
    [] id = MSG_RD_FPGA_FUNCTION -> (fpga.version_num \div 256) % 256

\* C7: from the reception of a version query (RD_CPU_VERSION, RD_FPGA_VERSION,
\* RD_FPGA_FUNCTION) until a datagram with another msg_id is received, the TX
\* ack word is msg_id << 8 | requested byte, over any number of ticks.
C7_VersionAckIsKept ==
  (isr = "idle" /\ nrecv > 0
     /\ sRx.header.msg_id \in {MSG_RD_CPU_VERSION, MSG_RD_FPGA_VERSION, MSG_RD_FPGA_FUNCTION})
  => sTx_ack = sRx.header.msg_id * 256 + RequestedByte(sRx.header.msg_id)

\* the same, leaving aside the bits that the values of FpgaInfoVals above the
\* low byte put into the high byte
C7_VersionAckUpToInfo ==
  (isr = "idle" /\ nrecv > 0
     /\ sRx.header.msg_id \in {MSG_RD_CPU_VERSION, MSG_RD_FPGA_VERSION, MSG_RD_FPGA_FUNCTION})
  => \E info \in FpgaInfoVals :
       sTx_ack = BitOr(sRx.header.msg_id, info \div 256) * 256
                   + RequestedByte(sRx.header.msg_id)

(***************************************************************************)
(* SpecLive: a stream of data frames, the msg_id alternating so that none  *)
(* is a duplicate, received at any time; update runs step by step.  The    *)
(* periodic context goes on whenever it can, and so does the loop of the   *)
(* receive context; datagrams need not arrive.                             *)
(***************************************************************************)
LiveHeader(n) ==
  Header(MSG_BEGIN + (n % 2), LEGACY_MODE + (n % 2) * READS_FPGA_INFO, 0, 0, <<n % 256>>)

RecvLive ==
  /\ nrecv < MaxPush
  /\ \E info \in FpgaInfoVals :
       recv_ethercat([header |-> LiveHeader(nrecv + 1), body |-> CountBody], info)

NextLive ==
  \/ RecvLive \/ RecvSpin
  \/ UpdPopCheck \/ UpdPopHead \/ UpdPopBody \/ UpdPopAdvance \/ UpdDispatch
  \/ UpdAckSwitch \/ UpdAckFlag \/ UpdAckLoad \/ UpdAckStore \/ UpdTxLoad \/ UpdTxStore

SpecLive == Init /\ [][NextLive]_vars /\ WF_vars(Update) /\ WF_vars(RecvSpin)

\* C5: whenever the receive context finds the ring full while enqueuing a
\* data frame, its busy-wait ends: push succeeds and recv_ethercat returns.
C5_BusyWaitEnds == (isr = "spin") ~> (isr = "idle")

(***************************************************************************)
(* The writers' specifications dispatch frames as process does once pop    *)
(* has returned them; up follows the upload: units sent so far, whether    *)
(* the first frame has gone, whether the last has, small frames so far,    *)
(* whether a frame other than the last had an odd size.                    *)
(***************************************************************************)
\* process (510-539) on the frame <<h, b>> returned by pop
Dispatch(h, b) ==
  /\ head' = h /\ body' = b
  /\ \E junk \in JunkVals :
       LET m == process_frame(Machine(fpga, mod_cycle, stm_cycle, seq_gain_data_mode),
                              h, b, cycle, junk)
       IN /\ fpga' = m.fpga
          /\ mod_cycle' = m.mod_cycle
          /\ stm_cycle' = m.stm_cycle
          /\ seq_gain_data_mode' = m.seq_gain_data_mode
  /\ UNCHANGED <<ack, msg_id, read_fpga_info, cycle, ringVars, sTx_ack, sRx, pc, loc, isr,
                 pushed, popped, ret, nrecv>>

(***************************************************************************)
(* SpecMod: one modulation upload, cut into MOD frames of any of the sizes *)
(* below, any frame being the last; frames that are not MOD frames come in *)
(* between.  Sample i of the upload is ModSample(i).                       *)
(***************************************************************************)
\* samples of an upload, at most
MaxMod == 33016
\* frames of a small size in an upload, at most
MaxSmall == 1

ModSample(i) == 1 + (i % 251)

\* MOD_HEAD.freq_div = 40960, low byte first
ModFreqDiv == <<0, 160, 0, 0>>

\* the size that takes an upload of full frames exactly to the end of segment 0
ModFill == (MOD_BUF_SEGMENT_SIZE - MOD_HEAD_DATA_SIZE) % HEADER_DATA_SIZE

\* sizes of which an upload has at most MaxSmall frames, and the sizes of a frame
ModSmall == {0, 1, 2, ModFill}
ModSizes(first) ==
  IF first THEN {0, 1, 2, MOD_HEAD_DATA_SIZE} ELSE {1, 2, ModFill, HEADER_DATA_SIZE}

\* the MOD frame that carries the n samples from sample p
ModFrame(p, n, first, last) ==
  Header(MSG_BEGIN, LEGACY_MODE,
         MOD + (IF first THEN MOD_BEGIN ELSE 0) + (IF last THEN MOD_END ELSE 0),
         n,
         (IF first THEN ModFreqDiv ELSE << >>) \o [j \in 1..n |-> ModSample(p + j - 1)])

\* a frame that is no MOD frame: the silencer configuration that clear leaves
SilencerFrame == Header(MSG_BEGIN, LEGACY_MODE, CONFIG_SILENCER, 0, <<0, 16, 10, 0>>)

ModDispatch ==
  /\ ~up.done
  /\ \E n \in ModSizes(~up.active), last \in BOOLEAN :
       /\ up.pos + n <= MaxMod
       /\ n \in ModSmall => up.small < MaxSmall
       /\ Dispatch(ModFrame(up.pos, n, ~up.active, last), CountBody)
       /\ up' = [pos |-> up.pos + n, active |-> TRUE, done |-> last,
                 small |-> up.small + (IF n \in ModSmall THEN 1 ELSE 0),
                 odd |-> up.odd \/ (n % 2 = 1 /\ ~last)]

ModOther ==
  /\ Dispatch(SilencerFrame, CountBody)
  /\ UNCHANGED up

NextMod == ModDispatch \/ ModOther

SpecMod == Init /\ [][NextMod]_vars

\* byte h (0 low, 1 high) of the word at address a of MOD BRAM
ModByte(a, h) == IF h = 0 THEN fpga.mod_bram[a] % 256 ELSE fpga.mod_bram[a] \div 256

\* C8: for any partition of M samples into MOD frames (MOD_BEGIN on the first,
\* MOD_END on the last, any sizes, odd or even, straddling a segment boundary
\* or not), once all frames are dispatched the bytes of MOD BRAM, segment by
\* segment, are the M samples in order.
C8_ModBramHoldsInput ==
  up.done =>
    \A a \in Watched : \A h \in {0, 1} :
      LET i == a[1] * MOD_BUF_SEGMENT_SIZE + 2 * a[2] + h
      IN i < up.pos => ModByte(a, h) = ModSample(i)

\* the same for the uploads in which only the last frame may have an odd
\* size, as the caller is assumed to submit them
C8_EvenSizesHoldInput == ~up.odd => C8_ModBramHoldsInput

C9_Dispatch ==
  LET h == head'
  IN IF Has(h.cpu_ctl_reg, MOD)
     THEN mod_cycle' = (IF Has(h.cpu_ctl_reg, MOD_BEGIN) THEN 0 ELSE mod_cycle) + h.size
     ELSE mod_cycle' = mod_cycle

\* C9: among dispatched frames only a MOD frame with MOD_BEGIN sets mod_cycle
\* to 0, and every MOD frame then adds exactly header.size to it, whichever
\* branch it takes; so during an upload mod_cycle is the number of samples
\* sent, and from the frame with MOD_END on the MOD_CYCLE register is
\* max(1, M) - 1.
C9_ModCycleCountsSamples ==
  /\ [][C9_Dispatch]_vars
  /\ [](up.active => mod_cycle = up.pos)
  /\ [](up.done => fpga.mod_cycle = U16(max(1, up.pos) - 1))

\* C9 witness: an upload that went over the segment boundary inside a frame
\* is complete, with an odd number of samples.
C9_Witness ==
  /\ up.done /\ up.pos > MOD_BUF_SEGMENT_SIZE /\ up.pos % 2 = 1
  /\ fpga.mod_addr_offset = 1
  /\ Has(head.cpu_ctl_reg, MOD_END)
  /\ fpga.mod_cycle = up.pos - 1

(***************************************************************************)
(* SpecPoint: one point-STM upload, cut into frames of as many points as a *)
(* body holds or fewer, any frame being the last.  Word j of point k of    *)
(* the upload is PointWord(k, j).                                          *)
(***************************************************************************)
\* points of an upload, at most
MaxPoints == 2056

PointWord(k, j) == 1 + 4 * k + j

\* freq_div and sound_speed of the first frame, low word first
PointFreqDiv == <<4660, 22136>>
PointSoundSpeed == <<340, 1>>

\* points a frame has room for: after the 5 words of POINT_STM_HEAD, after the 1 of POINT_STM_BODY
PointRoom(first) == IF first THEN (TRANS_NUM - 5) \div 4 ELSE (TRANS_NUM - 1) \div 4
PointSizes(first) == IF first THEN 0..PointRoom(first) ELSE 1..PointRoom(first)

\* the body that carries the n points from point p
PointBody(p, n, first) ==
  LET hd == IF first THEN <<n>> \o PointFreqDiv \o PointSoundSpeed ELSE <<n>>
  IN [i \in 1..TRANS_NUM |->
        IF i <= Len(hd) THEN hd[i]
        ELSE LET w == i - Len(hd) - 1
             IN IF w < 4 * n THEN PointWord(p + (w \div 4), w % 4) ELSE 0]

PointHeader(first, last) ==
  Header(MSG_BEGIN, OP_MODE,
         WRITE_BODY + (IF first THEN STM_BEGIN ELSE 0) + (IF last THEN STM_END ELSE 0),
         0, << >>)

PointDispatch ==
  /\ ~up.done
  /\ \E n \in PointSizes(~up.active), last \in BOOLEAN :
       /\ up.pos + n <= MaxPoints
       /\ Dispatch(PointHeader(~up.active, last), PointBody(up.pos, n, ~up.active))
       /\ up' = [up EXCEPT !.pos = up.pos + n, !.active = TRUE, !.done = last]

NextPoint == PointDispatch

SpecPoint == Init /\ [][NextPoint]_vars

\* C10: for any K points split into point-STM frames (STM_BEGIN on the first,
\* STM_END on the last, any sizes), once all frames are dispatched point k has
\* its 4 words, in order, in the first 4 words of the 8-word slot k mod 2^11
\* of segment k div 2^11 of STM BRAM, no point's slot holding another point,
\* and STM_FREQ_DIV and SOUND_SPEED are those of the first frame.
C10_PointsInTheirSlots ==
  up.done =>
    /\ \A a \in StmWatched :
         LET k == a[1] * POINT_STM_BUF_SEGMENT_SIZE + (a[2] \div 8)
         IN (k < up.pos /\ a[2] % 8 < 4) => fpga.stm_bram[a] = PointWord(k, a[2] % 8)
    /\ fpga.stm_freq_div = PointFreqDiv
    /\ fpga.sound_speed = PointSoundSpeed

(***************************************************************************)
(* SpecStm: STM uploads of both writers.  A point-STM upload as in         *)
(* SpecPoint; a gain-STM upload: a head frame that sets the mode, then     *)
(* body frames, legacy or raw, with or without IS_DUTY, any of them the    *)
(* last; at any time after the first frame a frame with both STM_BEGIN and *)
(* STM_END of either writer; before the upload, or never, a                *)
(* synchronization that stores the cycles.  up.small is 1 in a gain upload.*)
(***************************************************************************)
\* slots of a gain-STM upload from which no further body frame is sent
MaxGain == 34

\* points of a point-STM upload from which no further frame is sent
MaxStmPoints == 4

\* the modes a head frame may set: the three known ones and an unknown one
GainModes ==
  {GAIN_DATA_MODE_PHASE_DUTY_FULL, GAIN_DATA_MODE_PHASE_FULL, GAIN_DATA_MODE_PHASE_HALF, 3}

\* freq_div of the head frame, low word first
GainFreqDiv == <<4661, 22137>>

\* the body sent while _stm_cycle is c: every nibble depends on c and on the transducer
GainBody(c) ==
  [i \in 1..TRANS_NUM |->
     ((7 * c + 3 * i + 1) % 16) + 16 * ((5 * c + i + 2) % 16)
       + 256 * ((3 * c + 5 * i + 3) % 16) + 4096 * ((c + 7 * i + 4) % 16)]

GainHeadBody(mode) ==
  [i \in 1..TRANS_NUM |-> IF i <= 2 THEN GainFreqDiv[i] ELSE IF i = 3 THEN mode ELSE 0]

GainHeader(legacy, duty, first, last) ==
  Header(MSG_BEGIN,
         OP_MODE + STM_GAIN_MODE + (IF legacy THEN LEGACY_MODE ELSE 0),
         WRITE_BODY + (IF duty THEN IS_DUTY ELSE 0)
           + (IF first THEN STM_BEGIN ELSE 0) + (IF last THEN STM_END ELSE 0),
         0, << >>)

\* the cycles a synchronization stores
SyncCycles == [i \in 1..TRANS_NUM |-> 4096 + 2 * i]

StmSync ==
  /\ nrecv = 0 /\ ~up.active
  /\ recv_ethercat([header |-> Header(MSG_BEGIN, OP_MODE + STM_GAIN_MODE, CONFIG_SYNC, 0, << >>),
                    body |-> SyncCycles], 0)

StmPoint ==
  /\ up.small = 0 /\ up.pos < MaxStmPoints
  /\ PointDispatch

GainHead ==
  /\ ~up.active
  /\ \E mode \in GainModes :
       Dispatch(GainHeader(TRUE, FALSE, TRUE, FALSE), GainHeadBody(mode))
  /\ up' = [up EXCEPT !.active = TRUE, !.small = 1]

GainFrame ==
  /\ up.active /\ ~up.done /\ up.small = 1
  /\ stm_cycle < MaxGain
  /\ \E legacy \in BOOLEAN, duty \in BOOLEAN, last \in BOOLEAN :
       /\ Dispatch(GainHeader(legacy, duty, FALSE, last), GainBody(stm_cycle))
       /\ up' = [up EXCEPT !.done = last]

\* a frame with STM_BEGIN and STM_END, after the first frame of an upload
StmRestart ==
  /\ up.active
  /\ \/ Dispatch(GainHeader(TRUE, FALSE, TRUE, TRUE), GainHeadBody(seq_gain_data_mode))
     \/ Dispatch(PointHeader(TRUE, TRUE), PointBody(0, PointRoom(TRUE), TRUE))
  /\ up' = [up EXCEPT !.done = TRUE]

NextStm == StmSync \/ StmPoint \/ GainHead \/ GainFrame \/ StmRestart

SpecStm == Init /\ [][NextStm]_vars

\* the frame h goes to an STM writer (527-537), to write_gain_stm
IsStmFrame(h) ==
  /\ Has(h.cpu_ctl_reg, WRITE_BODY) /\ ~Has(h.cpu_ctl_reg, MOD_DELAY)
  /\ Has(h.fpga_ctl_reg, OP_MODE)
IsGainFrame(h) == IsStmFrame(h) /\ Has(h.fpga_ctl_reg, STM_GAIN_MODE)

\* a step of SpecStm that dispatches head'
IsStmDispatch == nrecv' = nrecv /\ IsStmFrame(head')

C11_Step ==
  IsStmDispatch =>
    /\ Has(head'.cpu_ctl_reg, STM_BEGIN) =>
         stm_cycle' = (IF IsGainFrame(head') THEN 0 ELSE body'[1])
    /\ Has(head'.cpu_ctl_reg, STM_END) =>
         fpga'.stm_cycle = U16(max(1, stm_cycle') - 1)

\* C11: for both STM writers, a dispatched frame with STM_BEGIN leaves in
\* stm_cycle only what that frame appends (stm_cycle was reset to 0 first),
\* and after a dispatched frame with STM_END, also one that has STM_BEGIN
\* too, the STM_CYCLE register is max(1, stm_cycle) - 1.
C11_StmBeginAndEnd == [][C11_Step]_vars

\* the advance of stm_cycle that the claim gives for a body frame
GainAdvance(mode, legacy, duty) ==
  CASE mode = GAIN_DATA_MODE_PHASE_FULL ->
         IF legacy THEN 2 ELSE IF duty THEN 0 ELSE 1
    [] mode = GAIN_DATA_MODE_PHASE_HALF -> IF legacy THEN 4 ELSE 0
    [] OTHER -> IF legacy THEN 1 ELSE IF duty THEN 1 ELSE 0

\* the body frames that the claim says are skipped
GainSkipped(mode, legacy, duty) ==
  \/ mode = GAIN_DATA_MODE_PHASE_FULL /\ ~legacy /\ duty
  \/ mode = GAIN_DATA_MODE_PHASE_HALF /\ ~legacy

C12_Step ==
  (IsStmDispatch /\ IsGainFrame(head')) =>
    LET legacy == Has(head'.fpga_ctl_reg, LEGACY_MODE)
        duty == Has(head'.cpu_ctl_reg, IS_DUTY)
    IN IF Has(head'.cpu_ctl_reg, STM_BEGIN)
       THEN stm_cycle' = 0 /\ fpga'.stm_bram = fpga.stm_bram
       ELSE /\ stm_cycle' = stm_cycle + GainAdvance(seq_gain_data_mode, legacy, duty)
            /\ GainSkipped(seq_gain_data_mode, legacy, duty) => fpga'.stm_bram = fpga.stm_bram

\* C12: a gain-STM body frame advances stm_cycle by the amount that
\* (seq_gain_data_mode, LEGACY_MODE, IS_DUTY) fix: PHASE_DUTY_FULL or an
\* unknown mode +1 legacy, +0 raw without IS_DUTY, +1 raw with IS_DUTY;
\* PHASE_FULL +2 legacy, +1 raw without IS_DUTY, +0 raw with IS_DUTY (STM BRAM
\* unchanged); PHASE_HALF +4 legacy, +0 otherwise (STM BRAM unchanged).  A
\* gain-STM frame with STM_BEGIN writes no transducer data and leaves
\* stm_cycle at 0.
C12_GainAdvance == [][C12_Step]_vars

\* C12 witness: a PHASE_HALF legacy body frame dispatched at the start of
\* segment 1 has just advanced stm_cycle by four.
C12_Witness ==
  /\ IsGainFrame(head) /\ ~Has(head.cpu_ctl_reg, STM_BEGIN)
  /\ Has(head.fpga_ctl_reg, LEGACY_MODE)
  /\ seq_gain_data_mode = GAIN_DATA_MODE_PHASE_HALF
  /\ body = GainBody(GAIN_STM_BUF_SEGMENT_SIZE)
  /\ stm_cycle = GAIN_STM_BUF_SEGMENT_SIZE + 4

\* a synchronization frame: MOD clear and CONFIG_SYNC set
IsSyncHeader(h) == ~Has(h.cpu_ctl_reg, MOD) /\ Has(h.cpu_ctl_reg, CONFIG_SYNC)

\* the step receives, as a new msg_id, a synchronization datagram with a data msg_id
C13_Recv ==
  /\ IsRecv /\ RecvId # msg_id
  /\ RecvId \in MSG_BEGIN..MSG_END
  /\ IsSyncHeader(sRx'.header)

C13_Step ==
  C13_Recv =>
    /\ isr' = "idle"
    /\ UNCHANGED <<ringVars, pushed, popped, curVars, pc>>
    /\ fpga'.cycle_base = sRx'.body
    /\ cycle' = sRx'.body
    /\ fpga'.ec_sync_time = DC_CYC_START_TIME
    /\ fpga'.ctl_reg = BitOr(sRx'.header.fpga_ctl_reg, SYNC)

MaxClear == 3

ClearDatagrams ==
  {[header |-> h, body |-> CountBody] :
     h \in {Header(MSG_CLEAR, 0, 0, 0, << >>),
            Header(MSG_CLEAR, READS_FPGA_INFO, 0, 0, << >>),
            Header(MSG_RD_CPU_VERSION, 0, 0, 0, << >>),
            Header(MSG_BEGIN, LEGACY_MODE, 0, 0, << >>)}}

ClearUpload ==
  /\ nrecv = 0
  /\ LET n == IF up.active THEN HEADER_DATA_SIZE ELSE MOD_HEAD_DATA_SIZE
     IN /\ up.pos + n <= MaxMod
        /\ Dispatch(ModFrame(up.pos, n, ~up.active, FALSE), CountBody)
        /\ up' = [up EXCEPT !.pos = up.pos + n, !.active = TRUE]

ClearRecv ==
  /\ nrecv < MaxClear
  /\ \E d \in ClearDatagrams, info \in FpgaInfoVals : recv_ethercat(d, info)

NextClear == ClearUpload \/ ClearRecv

SpecClear == Init /\ [][NextClear]_vars

\* what the claim says clear establishes
C14_Established ==
  /\ fpga.ctl_reg = LEGACY_MODE
  /\ fpga.silent_step = 10 /\ fpga.silent_cycle = 4096
  /\ stm_cycle = 0 /\ mod_cycle = 2
  /\ fpga.mod_cycle = 1 /\ Reg32(fpga.mod_freq_div) = 40960
  /\ fpga.mod_bram[<<0, 0>>] = 0
  /\ \A i \in 1..(2 * TRANS_NUM) : fpga.normal_bram[i] = 0
  /\ head_buf = ZeroHeadBuf /\ body_buf = ZeroBodyBuf
  /\ ~read_fpga_info

\* the state is one that clear has left
C14_Cleared ==
  /\ fpga = clear_fpga(fpga)
  /\ stm_cycle = 0 /\ mod_cycle = 2
  /\ head_buf = ZeroHeadBuf /\ body_buf = ZeroBodyBuf
  /\ head = ZeroHeader /\ body = ZeroBody
  /\ ~read_fpga_info

\* the step runs clear: a MSG_CLEAR datagram that is not a repetition
IsClearStep == IsRecv /\ RecvId = MSG_CLEAR /\ msg_id # MSG_CLEAR

C14_Step ==
  IsClearStep =>
    /\ C14_Established'
    /\ C14_Cleared =>
         UNCHANGED <<fpga, stm_cycle, mod_cycle, seq_gain_data_mode, cycle, read_fpga_info,
                     ringVars, curVars>>

\* C14: from any reachable state clear establishes CTL_REG = LEGACY_MODE,
\* SILENT_STEP = 10, SILENT_CYCLE = 4096, stm_cycle = 0, mod_cycle = 2,
\* MOD_CYCLE = 1, MOD_FREQ_DIV = 40960, word 0 of MOD BRAM = 0, NORMAL BRAM
\* zeroed, the ring slots zeroed and read_fpga_info false; clear run on a
\* state that clear has left changes nothing of the FPGA and of the firmware
\* state; and ack is 0 as long as no datagram has been served.
C14_ClearEstablishes ==
  /\ [][C14_Step]_vars
  /\ [](nrecv = 0 => (ack = 0 /\ (up.pos = 0 => C14_Established)))

\* the words of STM BRAM and of MOD BRAM that the step changes
StmChanged == {a \in StmWatched : fpga'.stm_bram[a] # fpga.stm_bram[a]}
ModChanged == {a \in Watched : fpga'.mod_bram[a] # fpga.mod_bram[a]}

C15_PointStep ==
  \A a \in StmChanged :
    \E k \in up.pos..(up'.pos - 1) :
      /\ a[1] = k \div POINT_STM_BUF_SEGMENT_SIZE
      /\ a[2] \div 8 = k % POINT_STM_BUF_SEGMENT_SIZE

C15_ModStep ==
  \A a \in ModChanged :
    \E k \in up.pos..(up'.pos - 1) :
      /\ a[1] = k \div MOD_BUF_SEGMENT_SIZE
      /\ a[2] = (k % MOD_BUF_SEGMENT_SIZE) \div 2

\* C15: in the point-STM writer (segment 2^11 points, register
\* STM_ADDR_OFFSET), for every partition of an upload into frames, the point
\* with stream index k is written while the register is k div 2^11, so a
\* frame changes only the slots of its own points in their own segments,
\* also when the frame before it ended exactly on a segment boundary.
C15_WrittenInTheirSegment == [][C15_PointStep]_vars

\* the same for the modulation writer (segment 2^15 samples, register
\* MOD_ADDR_OFFSET)
C15_ModWrittenInTheirSegment == [][C15_ModStep]_vars

C16_Step ==
  (IsStmDispatch /\ IsGainFrame(head') /\ ~Has(head'.cpu_ctl_reg, STM_BEGIN)) =>
    \A a \in StmChanged :
      \E c \in stm_cycle..max(stm_cycle, stm_cycle' - 1) :
        /\ a[1] = c \div GAIN_STM_BUF_SEGMENT_SIZE
        /\ a[2] \div GAIN_STM_SLOT_WORDS = c % GAIN_STM_BUF_SEGMENT_SIZE

\* C16: in the gain-STM writer every slot write for frame index c happens
\* while STM_ADDR_OFFSET is c div 2^5, the register being updated after any
\* advance of stm_cycle to a multiple of 2^5, also after a sub-pass of a
\* PHASE_FULL legacy or PHASE_HALF legacy frame and in streams that mix
\* legacy and raw frames: a body frame changes only the slots from
\* stm_cycle to the last one before its advance (the slot stm_cycle itself
\* for a raw phase frame, which does not advance), each in its own segment.
C16_GainWrittenInTheirSegment == [][C16_Step]_vars

(***************************************************************************)
(* SpecTick: update step by step, interrupted at every step by             *)
(* recv_ethercat, on frames that set several flags of the dispatcher at    *)
(* once, and MSG_CLEAR.                                                    *)
(***************************************************************************)
\* datagrams received in SpecTick
MaxTick == 2

\* a MOD frame that also asks for the silencer and for the mod-delay writer; a
\* silencer configuration with a normal-gain body; a point-STM and a gain-STM
\* first frame; a frame with no body flag; MSG_CLEAR
TickHeaders ==
  {Header(MSG_BEGIN, 0, MOD + MOD_BEGIN + MOD_END + CONFIG_SILENCER + WRITE_BODY + MOD_DELAY,
          3, ModFreqDiv \o <<170, 187, 204>>),
   Header(MSG_BEGIN + 1, READS_FPGA_INFO + LEGACY_MODE, CONFIG_SILENCER + WRITE_BODY, 0,
          <<0, 8, 5, 0>>),
   Header(MSG_BEGIN + 2, OP_MODE, WRITE_BODY + STM_BEGIN + STM_END, 0, << >>),
   Header(MSG_BEGIN + 3, OP_MODE + STM_GAIN_MODE, WRITE_BODY + STM_BEGIN, 0, << >>),
   Header(MSG_BEGIN + 4, OP_MODE + STM_GAIN_MODE + LEGACY_MODE, 0, 0, << >>),
   Header(MSG_CLEAR, 0, 0, 0, << >>)}

RecvTick ==
  /\ nrecv < MaxTick
  /\ \E h \in TickHeaders, info \in {0, 1} :
       recv_ethercat([header |-> h, body |-> CountBody], info)

NextTick == RecvTick \/ Update

SpecTick == Init /\ [][NextTick]_vars

\* the header action and the body writer that the claim's priorities choose
C17_HeaderAction(m, h, junk) ==
  CASE Has(h.cpu_ctl_reg, MOD) -> write_mod(m, h, junk)
    [] ~Has(h.cpu_ctl_reg, MOD) /\ Has(h.cpu_ctl_reg, CONFIG_SILENCER) ->
         config_silencer(m, h, junk)
    [] OTHER -> m

C17_BodyWriter(m, h, b, cyc, junk) ==
  CASE ~Has(h.cpu_ctl_reg, WRITE_BODY) -> m
    [] Has(h.cpu_ctl_reg, WRITE_BODY) /\ Has(h.cpu_ctl_reg, MOD_DELAY) -> set_mod_delay(m, b)
    [] Has(h.cpu_ctl_reg, WRITE_BODY) /\ ~Has(h.cpu_ctl_reg, MOD_DELAY)
         /\ ~Has(h.fpga_ctl_reg, OP_MODE) -> write_normal_op(m, h, b)
    [] Has(h.cpu_ctl_reg, WRITE_BODY) /\ ~Has(h.cpu_ctl_reg, MOD_DELAY)
         /\ Has(h.fpga_ctl_reg, OP_MODE) /\ ~Has(h.fpga_ctl_reg, STM_GAIN_MODE) ->
         write_point_stm(m, h, b, junk)
    [] OTHER -> write_gain_stm(m, h, b, cyc, junk)

\* the step dispatches as the claim says the frame <<h, b>> is dispatched
C17_Dispatches(h, b) ==
  \E junk \in JunkVals :
    LET m == Machine(fpga, mod_cycle, stm_cycle, seq_gain_data_mode)
        m0 == [m EXCEPT !.fpga.ctl_reg = h.fpga_ctl_reg]
    IN Machine(fpga', mod_cycle', stm_cycle', seq_gain_data_mode')
         = C17_BodyWriter(C17_HeaderAction(m0, h, junk), h, b, cycle, junk)

\* steps of update, told from receive steps by pc
C17_Tick ==
  /\ (pc' # pc /\ pc' = "pop_head") => pc = "idle"
  /\ (pc' # pc /\ pc' = "pop_body") => pc = "pop_head"
  /\ (pc' # pc /\ pc' = "pop_adv") => pc = "pop_body"
  /\ (pc' # pc /\ pc' = "dispatch") => pc = "pop_adv"
  /\ popped' # popped => (pc = "pop_adv" /\ Len(popped') = Len(popped) + 1)
  /\ (pc = "idle" /\ pc' # pc /\ read_cursor = write_cursor) => pc' = "ack_switch"
  /\ fpga' # fpga => (IsRecv \/ pc = "dispatch")

\* C17: a tick pops at most one ring entry; for the popped frame the
\* dispatcher writes header.fpga_ctl_reg to CTL_REG, then runs at most one
\* header action (the modulation writer if MOD is set, otherwise the
\* silencer configurator if CONFIG_SILENCER is set), then at most one body
\* writer (none if WRITE_BODY is clear; else mod-delay if MOD_DELAY is set;
\* else normal-gain if OP_MODE is clear; else point-STM if STM_GAIN_MODE is
\* clear; else gain-STM); a tick that finds the ring empty writes nothing to
\* the FPGA.
C17_DispatchPriority ==
  [][/\ C17_Tick
     /\ (pc = "dispatch" /\ pc' # pc) =>
          C17_Dispatches(popped[Len(popped)][1], popped[Len(popped)][2])]_vars

\* the same for the frame that is in _head and _body when the dispatcher runs
C17_PriorityOnCurrentFrame ==
  [][/\ C17_Tick
     /\ (pc = "dispatch" /\ pc' # pc) => C17_Dispatches(head, body)]_vars

\* C18: the receive context writes no firmware state other than the ring
\* (slots and write_cursor), msg_id_last, read_fpga_info and ack: no step of
\* recv_ethercat, its MSG_CLEAR and CONFIG_SYNC branches included, modifies
\* mod_cycle, stm_cycle, the frame that the periodic context is dispatching,
\* or any other variable of the firmware.
C18_ReceiveWritesRingAndAck ==
  [][IsRecv => UNCHANGED <<mod_cycle, stm_cycle, head, body, cycle, seq_gain_data_mode,
                           read_cursor>>]_vars

\* the same for the variables the claim names: mod_cycle, stm_cycle and the
\* frame being dispatched
C18_WriterStateUntouched ==
  [][IsRecv => UNCHANGED <<mod_cycle, stm_cycle, head, body>>]_vars

\* and for mod_cycle alone
C18_ModCycleUntouched == [][IsRecv => UNCHANGED mod_cycle]_vars

\* the step is the dispatch of the frame in _head and _body
IsTickDispatch == pc = "dispatch" /\ pc' # pc

\* C19: every frame the periodic context dispatches is identical, header and
\* body, to a frame that the receive context pushed, and frames are
\* dispatched in push order (the k-th dispatched frame is the k-th pushed
\* one), for every sequence of received datagrams, also when MSG_CLEAR is
\* handled while entries are outstanding in the ring or while the periodic
\* context is in the middle of pop or about to dispatch.
C19_DispatchedWerePushed ==
  [][IsTickDispatch =>
       /\ Len(popped) <= Len(pushed)
       /\ <<head, body>> = pushed[Len(popped)]]_vars

\* in particular the CTL_REG value a dispatch writes is one that a pushed
\* frame, or the datagram received last, carried
C19_CtlRegFromAFrame ==
  [][IsTickDispatch =>
       fpga'.ctl_reg \in {pushed[i][1].fpga_ctl_reg : i \in 1..Len(pushed)}
                           \cup {sRx.header.fpga_ctl_reg}]_vars

\* the step dispatches a gain-STM body frame in mode PHASE_FULL, raw, without IS_DUTY
IsPhaseFullRaw ==
  /\ IsStmDispatch /\ IsGainFrame(head') /\ ~Has(head'.cpu_ctl_reg, STM_BEGIN)
  /\ seq_gain_data_mode = GAIN_DATA_MODE_PHASE_FULL
  /\ ~Has(head'.fpga_ctl_reg, LEGACY_MODE) /\ ~Has(head'.cpu_ctl_reg, IS_DUTY)

\* entry j (from 0) of the table of TRANS_NUM cycles that synchronize stored
CycleEntry(j) == IF j < TRANS_NUM THEN {cycle[j + 1]} ELSE {}

\* the watched words of the current slot, by their offset in the slot, up to pair n - 1
SlotWords(n) ==
  {a \in StmWatched : /\ a[1] = fpga.stm_addr_offset
                      /\ a[2] - gain_addr(stm_cycle) \in 0..(2 * n - 1)}

C20_Pairs(n) ==
  \A a \in SlotWords(n) :
    LET o == a[2] - gain_addr(stm_cycle)
        i == o \div 2
    IN IF o % 2 = 0 THEN fpga'.stm_bram[a] = body'[i + 1]
       ELSE fpga'.stm_bram[a] \in {e \div 2 : e \in CycleEntry(i + 1)}

C20_PairsBeforeLast ==
  [][IsPhaseFullRaw =>
       /\ stm_cycle' = stm_cycle + 1
       /\ C20_Pairs(TRANS_NUM - 1)
       /\ \A a \in SlotWords(TRANS_NUM) :
            a[2] - gain_addr(stm_cycle) = 2 * TRANS_NUM - 2 =>
              fpga'.stm_bram[a] = body'[TRANS_NUM]
       /\ \A a \in StmWatched \ SlotWords(TRANS_NUM) :
            fpga'.stm_bram[a] = fpga.stm_bram[a]]_vars

====
